---- MODULE Spec2Model ----
(***************************************************************************)
(* A model of the orchestration layer of emu-project/func_processing:     *)
(* the sbatch submission wrappers, the subject-selection loops of the     *)
(* command line tools, the AFNI pre-processing workflow and the job that  *)
(* drives it, the completed_preprocessing.tsv bookkeeping, the fMRIprep   *)
(* workflow and the ASHS resource.  Each part has its own specification   *)
(* over its own variables; the variables of the other parts stay idle.    *)
(***************************************************************************)
EXTENDS Integers, Sequences, FiniteSets, TLC

VARIABLES
    \* ---- resources/afni/submit_jobs.py, func_processing/resources/afni/submit.py
    squeue,        \* the user's Slurm queue: sequence of [id, name], queued or running
    sb_pc,         \* position of submit_hpc_sbatch: idle, poll, wait, returned
    job_name,      \* job_name argument of the running call
    job_id,        \* id sbatch gave the submitted job (0: none)
    b_decode,      \* last decoded output of `squeue -u $(whoami)`
    while_count,   \* wait counter of the polling loop
    next_id,       \* next job id Slurm hands out
    \* ---- func_processing/cli/afni_task_subj.py, ashs.py, fmriprep.py: main
    cli,           \* which command line tool runs: afni, ashs, fmriprep
    json_dir,      \* --json-dir given
    out_dir,       \* --out-dir given
    batch_num,     \* --batch-num
    subj_list_all, \* subjects of the log (or of dset), in order
    idx,           \* how many subjects of subj_list_all the loop has taken
    obs,           \* what the loop's current iteration read from disk and log
    subj_dict,     \* the work queue, in insertion order
    submitted,     \* the queue entries submit_jobs was called for, in order
    cli_pc,        \* select, submit, done, crashed
    \* ---- workflow/control_afni.py control_preproc and the job of
    \*      cli/afni_task_subj.py submit_jobs that calls it
    do_blur,       \* do_blur argument
    num_runs,      \* EPI runs of the task in the subject's fMRIprep output
    kp_interm,     \* kp_interm of the generated job
    do_decon,      \* do_decon of the generated job
    files,         \* files under the scratch work_dir <afni_dir>/<subj>/<sess>
    afni_data,     \* the afni_data dict: key -> file
    pp_pc,         \* position: idle, a step of control_preproc, returned,
                   \* failed, and the job's decon, cleanup, copy, rmtree, job_done
    pp_i,          \* iterations done of the running step's loop
    jobs,          \* submit_hpc_sbatch calls of this control_preproc call
    steps,         \* steps this control_preproc call has started, in order
    job_lost,      \* step whose job returned without its output ("": none)
    run_no,        \* control_preproc calls so far on this work_dir
    completed,     \* an earlier control_preproc call on this work_dir returned
    prev_data,     \* afni_data that call returned
    final,         \* files of the subject under afni_final
    scratch_gone,  \* the job has removed <afni_dir>/<subj>
    \* ---- resources/reports/check_complete.py check_preproc
    dset,          \* sub-* directories of <proj_dir>/dset
    deriv,         \* subject, column -> mtime of the derivative file glob finds (0: none)
    now,           \* modification time the next written file gets
    log,           \* rows of completed_preprocessing.tsv: [subjID, cells], 0 is NaN
    new_df,        \* new_df argument of the last call
    one_subj,      \* one_subj argument of the last call (<<>>: False)
    guid,          \* subjects of the pseudo-GUID list the last call fetched
    excluded,      \* those of them whose exclude field is set
    ck_calls,      \* check_preproc calls so far
    ck_crashed,    \* the last call raised
    prev_log,      \* the log before the last call
    \* ---- workflow/control_fmriprep.py control_fmriprep, for one subject, and
    \*      the job of cli/fmriprep.py submit_jobs that calls it
    fp_version,    \* "new": func_processing/workflow, "old": workflow
    fp_pc,         \* idle, t1, check_fs, run_fs, assert_fs, start_fp, run_fp,
                   \* returned, failed
    dset_t1,       \* the subject has a T1w file in dset
    scratch_t1,    \* the subject has a T1w file in the scratch dset
    fs_subj,       \* <freesurfer_dir>/<subj>: none, partial (no
                   \* mri/aparc+aseg.mgz), done (with it)
    fp_subj,       \* <fmriprep_dir>/<subj>: none, partial (no
                   \* desc-preproc_T1w), done (with it)
    fs_found,      \* what this call's test of check_freesurfer gave: unset, yes, no
    fs_ran,        \* this call has submitted the FreeSurfer job
    fp_started,    \* this call has called run_fmriprep
    fs_at_start,   \* fs_subj when run_fmriprep was called (unset before)
    fp_calls,      \* control_fmriprep calls so far
    \* ---- resources/ashs/hipseg.py run_ashs, for one subject
    ashs_pc,       \* idle, job, copy, cleanup, returned, failed
    work_final,    \* files of <work_dir>/final
    deriv_files,   \* files of <deriv_dir>
    ashs_out,      \* the listing of <work_dir>/final the copy loop goes through
    ashs_i,        \* iterations done of the copy loop
    ashs_removed,  \* this call has removed work_dir
    ashs_lost,     \* files of <work_dir>/final that were not in deriv_dir
                   \* when work_dir was removed
    ashs_calls,    \* run_ashs calls so far
    \* ---- cli/run_afni.py, cli/run_ashs.py: main, the controller loops
    ctl,           \* which controller runs: run_afni, run_ashs
    ctl_pc,        \* check, wait, submit, sleep, done, crashed
    ctl_queue,     \* the user's Slurm queue, the controller's own job first
    out_lines,     \* decoded output of the controller's last squeue
    ctl_seen,      \* the queue that squeue listed
    ctl_while_count, \* while_count
    work_status,   \* work_status
    ctl_json_dir,  \* run_afni: --json-dir given
    ctl_json,      \* subjects with a JSON file in json_dir
    ctl_batch,     \* batch_num
    todo,          \* subjects with input whose output is missing
    ctl_subj_list, \* subj_list (the keys of subj_dict) of this iteration
    ctl_i,         \* jobs this iteration has submitted
    ctl_decon_plan, \* subject whose JSON decon_plan was loaded from (0: None)
    ctl_submitted,  \* [subj, plan] of every job submitted so far
    \* ---- resources/afni/motion.py: mot_files, the censor vector
    mot_pc,        \* idle, run, cat, done
    mot_conf,      \* per run of mot_list: [n: volumes, out: volumes with a motion_outlier column]
    censor_cat,    \* censor_cat: one sum column per run read so far
    df_censor_cat,  \* the sum column of df_censor_cat, as written to the censor file
    \* ---- cli/afni_task_subj.py, cli/afni_resting_subj.py: two subject jobs of one subject
    cj_shared,     \* both calls of main made the same slurm_dir (same minute)
    cj_kp,         \* kp_interm of each call
    cj_script,     \* per script file: the session whose driver script it holds (0: not written)
    cj_pc,         \* per call: start, written, work, cleanup, copy, lights, done, crashed
    cj_sess,       \* per job: the session of the script that sbatch read
    cj_step,       \* per job: workflow steps finished
    cj_scratch,    \* per session: files under <afni_dir>/<subj>/<sess>
    cj_final       \* per session: files under <afni_final>/<subj>/<sess>

submitVars == <<squeue, sb_pc, job_name, job_id, b_decode, while_count, next_id>>
cliVars == <<cli, json_dir, out_dir, batch_num, subj_list_all, idx, obs,
             subj_dict, submitted, cli_pc>>

ppArgs == <<do_blur, num_runs, kp_interm, do_decon>>
ppVars == <<ppArgs, files, afni_data, pp_pc, pp_i, jobs, steps, job_lost,
            run_no, completed, prev_data, final, scratch_gone>>

ckVars == <<dset, deriv, now, log, new_df, one_subj, guid, excluded,
            ck_calls, ck_crashed, prev_log>>

fpVars == <<fp_version, fp_pc, dset_t1, scratch_t1, fs_subj, fp_subj, fs_found,
            fs_ran, fp_started, fs_at_start, fp_calls>>

ashsVars == <<ashs_pc, work_final, deriv_files, ashs_out, ashs_i, ashs_removed,
              ashs_lost, ashs_calls>>

ctlVars == <<ctl, ctl_pc, ctl_queue, out_lines, ctl_seen, ctl_while_count,
             work_status, ctl_json_dir, ctl_json, ctl_batch, todo, ctl_subj_list,
             ctl_i, ctl_decon_plan, ctl_submitted>>

motVars == <<mot_pc, mot_conf, censor_cat, df_censor_cat>>

cjVars == <<cj_shared, cj_kp, cj_script, cj_pc, cj_sess, cj_step, cj_scratch, cj_final>>

vars == <<submitVars, cliVars, ppVars, ckVars, fpVars, ashsVars, ctlVars, motVars, cjVars>>

\* The variables each part leaves alone.
SubmitOnly == UNCHANGED <<cliVars, ppVars, ckVars, fpVars, ashsVars, ctlVars, motVars, cjVars>>
CliOnly == UNCHANGED <<submitVars, ppVars, ckVars, fpVars, ashsVars, ctlVars, motVars, cjVars>>
PreprocOnly == UNCHANGED <<submitVars, cliVars, ckVars, fpVars, ashsVars, ctlVars, motVars, cjVars>>
CheckOnly == UNCHANGED <<submitVars, cliVars, ppVars, fpVars, ashsVars, ctlVars, motVars, cjVars>>
FmriprepOnly == UNCHANGED <<submitVars, cliVars, ppVars, ckVars, ashsVars, ctlVars, motVars, cjVars>>
AshsOnly == UNCHANGED <<submitVars, cliVars, ppVars, ckVars, fpVars, ctlVars, motVars, cjVars>>
CtlOnly == UNCHANGED <<submitVars, cliVars, ppVars, ckVars, fpVars, ashsVars, motVars, cjVars>>
MotOnly == UNCHANGED <<submitVars, cliVars, ppVars, ckVars, fpVars, ashsVars, ctlVars, cjVars>>
CjOnly == UNCHANGED <<submitVars, cliVars, ppVars, ckVars, fpVars, ashsVars, ctlVars, motVars>>

(***************************************************************************)
(* Bounds of the model.                                                    *)
(***************************************************************************)
MaxNameLen == 2     \* longest job name, in characters
MaxOther == 1       \* other jobs of the same user submitted during a call
MaxWait == 3        \* polling rounds followed

(***************************************************************************)
(* Strings are sequences of one-character strings.                         *)
(***************************************************************************)
NameChars == {"1", "s"}

SeqsUpTo(S, n) == UNION {[1..k -> S] : k \in 1..n}

JobNames == SeqsUpTo(NameChars, MaxNameLen)

\* Python's `s in t` for strings.
IsSubstr(s, t) ==
    \E i \in 0..(Len(t) - Len(s)) : SubSeq(t, i + 1, i + Len(s)) = s

RECURSIVE Concat(_)
Concat(ss) == IF ss = <<>> THEN <<>> ELSE Head(ss) \o Concat(Tail(ss))

\* What `squeue -u $(whoami)` prints: a header line, then one line per job of
\* the user that is queued or running, with the job's name in it.
SqueueHeader == <<"N", "A", "M", "E", "\n">>
SqueueLine(job) == <<" ">> \o job.name \o <<" ", "\n">>
SqueueText(q) == SqueueHeader \o Concat([i \in 1..Len(q) |-> SqueueLine(q[i])])

InQueue(id) == \E i \in 1..Len(squeue) : squeue[i].id = id

Remove(q, i) == SubSeq(q, 1, i - 1) \o SubSeq(q, i + 1, Len(q))

(***************************************************************************)
(* submit_hpc_sbatch                                                       *)
(***************************************************************************)
IdleSubmit ==
    /\ squeue = <<>>
    /\ sb_pc = "idle"
    /\ job_name = <<>>
    /\ job_id = 0
    /\ b_decode = <<>>
    /\ while_count = 0
    /\ next_id = 1

\* sbatch accepts the job: it is in the queue when sbatch prints its id.
\* The polling version goes on to its while loop; the --wait version stays
\* blocked in communicate() until sbatch exits.
Sbatch(name, version) ==
    /\ sb_pc = "idle"
    /\ squeue' = Append(squeue, [id |-> next_id, name |-> name])
    /\ job_id' = next_id
    /\ next_id' = next_id + 1
    /\ job_name' = name
    /\ while_count' = 0
    /\ sb_pc' = IF version = "poll" THEN "poll" ELSE "wait"
    /\ UNCHANGED b_decode
    /\ SubmitOnly

SbatchSubmit == \E name \in JobNames, version \in {"poll", "wait"} : Sbatch(name, version)

\* A loop whose test is inverted: it leaves while job_name is still listed.
PollFoundMut ==
    /\ sb_pc = "poll"
    /\ b_decode' = SqueueText(squeue)
    /\ IsSubstr(job_name, b_decode')
    /\ sb_pc' = "returned"
    /\ UNCHANGED <<squeue, job_name, job_id, while_count, next_id>>
    /\ SubmitOnly

\* The polling loop with job_name found in the listing: count and go to
\* sleep.  Nothing reads while_count, which is kept up to MaxWait.
PollFound ==
    /\ sb_pc = "poll"
    /\ b_decode' = SqueueText(squeue)
    /\ IsSubstr(job_name, b_decode')
    /\ while_count' = IF while_count < MaxWait THEN while_count + 1 ELSE while_count
    /\ sb_pc' = "sleep"
    /\ UNCHANGED <<squeue, job_name, job_id, next_id>>
    /\ SubmitOnly

\* time.sleep(3) is over: back to the top of the loop.
PollSleep ==
    /\ sb_pc = "sleep"
    /\ sb_pc' = "poll"
    /\ UNCHANGED <<squeue, job_name, job_id, b_decode, while_count, next_id>>
    /\ SubmitOnly

\* The polling loop with job_name absent from the listing: the function returns.
PollGone ==
    /\ sb_pc = "poll"
    /\ b_decode' = SqueueText(squeue)
    /\ ~IsSubstr(job_name, b_decode')
    /\ sb_pc' = "returned"
    /\ UNCHANGED <<squeue, job_name, job_id, while_count, next_id>>
    /\ SubmitOnly

\* sbatch --wait exits when the submitted job has terminated.
WaitReturn ==
    /\ sb_pc = "wait"
    /\ ~InQueue(job_id)
    /\ sb_pc' = "returned"
    /\ UNCHANGED <<squeue, job_name, job_id, b_decode, while_count, next_id>>
    /\ SubmitOnly

\* Slurm: a job of the user ends and leaves the queue.
JobEnds ==
    \E i \in 1..Len(squeue) :
        /\ squeue' = Remove(squeue, i)
        /\ UNCHANGED <<sb_pc, job_name, job_id, b_decode, while_count, next_id>>
        /\ SubmitOnly

\* Another job of the same user is submitted meanwhile.
OtherJob ==
    \E name \in JobNames :
        /\ next_id <= MaxOther + 1
        /\ sb_pc # "idle"
        /\ squeue' = Append(squeue, [id |-> next_id, name |-> name])
        /\ next_id' = next_id + 1
        /\ UNCHANGED <<sb_pc, job_name, job_id, b_decode, while_count>>
        /\ SubmitOnly


(***************************************************************************)
(* cli/afni_task_subj.py, cli/ashs.py, cli/fmriprep.py: main               *)
(***************************************************************************)
MaxSubj == 3        \* subjects in the log (or in dset)
MaxBatch == 2       \* largest --batch-num tried

Min(a, b) == IF a < b THEN a ELSE b
Max(a, b) == IF a > b THEN a ELSE b

\* Python's s[:n].
PySliceMut(s, n) == SubSeq(s, 1, Min(n + 1, Len(s)))

PySlice(s, n) ==
    IF n >= 0 THEN SubSeq(s, 1, Min(n, Len(s)))
    ELSE SubSeq(s, 1, Max(Len(s) + n, 0))

\* What one iteration of a selection loop can read.  A field the iteration
\* does not read keeps FALSE.
\*   anat, func      afni: globs of fMRIprep output under prep_dir
\*   json            afni: glob of <json_dir>/<subj>*.json
\*   wme_found, intx_found, scaled_found
\*                   afni: globs under <out_dir>/<subj>/<sess>
\*   decon_exists    afni: glob of the planned decon under afni_final
\*   log_wme, log_intersect, log_scaled, log_decon, log_ashs
\*                   cell of the subject's log row is filled (not null)
\*   t1, t2          ashs: globs of T1w, T2w files under dset
\*   t1_exists       fmriprep: glob of fMRIprep output under derivatives
ObsNone ==
    [anat |-> FALSE, func |-> FALSE, json |-> FALSE,
     wme_found |-> FALSE, intx_found |-> FALSE, scaled_found |-> FALSE,
     decon_exists |-> FALSE,
     log_wme |-> FALSE, log_intersect |-> FALSE, log_scaled |-> FALSE,
     log_decon |-> FALSE, log_ashs |-> FALSE,
     t1 |-> FALSE, t2 |-> FALSE, t1_exists |-> FALSE]

IdleCli ==
    /\ cli = "afni"
    /\ json_dir = FALSE
    /\ out_dir = FALSE
    /\ batch_num = 0
    /\ subj_list_all = <<>>
    /\ idx = 0
    /\ obs = ObsNone
    /\ subj_dict = <<>>
    /\ submitted = <<>>
    /\ cli_pc = "done"

\* After argument parsing and reading the log: any tool, any options, a log
\* (sorted by subjID) of up to MaxSubj subjects.
InitCli ==
    /\ cli \in {"afni", "ashs", "fmriprep"}
    /\ json_dir \in (IF cli = "afni" THEN BOOLEAN ELSE {FALSE})
    /\ out_dir \in (IF cli = "afni" THEN BOOLEAN ELSE {FALSE})
    /\ batch_num \in 0..MaxBatch
    /\ subj_list_all \in {[i \in 1..n |-> i] : n \in 0..MaxSubj}
    /\ idx = 0
    /\ obs = ObsNone
    /\ subj_dict = <<>>
    /\ submitted = <<>>
    /\ cli_pc = "select"

Reads(b) == IF b THEN BOOLEAN ELSE {FALSE}

\* afni_task_subj.main, lines 381-450: one iteration of the subject loop.
\* r is what the iteration reads, in the order the code reads it.
AfniIteration(subj, r) ==
    LET wme_missing == IF out_dir THEN ~r.wme_found ELSE ~r.log_wme
        intersect_missing == IF out_dir THEN ~r.intx_found ELSE ~r.log_intersect
        scaled_missing == IF out_dir THEN ~r.scaled_found ELSE ~r.log_scaled
        decon_missing == IF json_dir THEN ~r.decon_exists ELSE ~r.log_decon
        decon_plan == IF json_dir THEN subj ELSE 0
    IN  IF ~r.anat \/ ~r.func
        THEN /\ UNCHANGED <<subj_dict, cli_pc>>
        ELSE IF json_dir /\ ~r.json
        THEN /\ UNCHANGED <<subj_dict, cli_pc>>
        ELSE IF out_dir /\ ~json_dir
        \* line 440 reads ind_subj, which only the else branch of line 423
        \* binds: UnboundLocalError, main ends with the traceback.
        THEN /\ cli_pc' = "crashed"
             /\ UNCHANGED subj_dict
        ELSE IF intersect_missing \/ wme_missing \/ decon_missing \/ scaled_missing
        THEN /\ subj_dict' = Append(subj_dict,
                    [subj |-> subj, Decon |-> decon_missing, Decon_plan |-> decon_plan])
             /\ UNCHANGED cli_pc
        ELSE /\ UNCHANGED <<subj_dict, cli_pc>>

AfniCheckSubj ==
    /\ cli = "afni" /\ cli_pc = "select" /\ idx < Len(subj_list_all)
    /\ \E anat \in BOOLEAN :
       \E func \in BOOLEAN :
       \E json \in Reads(anat /\ func /\ json_dir) :
       \E found \in [{"wme", "intx", "scaled"} -> Reads(anat /\ func /\ (json_dir => json) /\ out_dir)] :
       \E logc \in [{"wme", "intersect", "scaled"} -> Reads(anat /\ func /\ (json_dir => json) /\ ~out_dir)] :
       \E decon_exists \in Reads(anat /\ func /\ json /\ json_dir) :
       \E log_decon \in Reads(anat /\ func /\ ~json_dir) :
          LET r == [ObsNone EXCEPT !.anat = anat, !.func = func, !.json = json,
                        !.wme_found = found["wme"], !.intx_found = found["intx"],
                        !.scaled_found = found["scaled"], !.decon_exists = decon_exists,
                        !.log_wme = logc["wme"], !.log_intersect = logc["intersect"],
                        !.log_scaled = logc["scaled"], !.log_decon = log_decon]
          IN  /\ obs' = r
              /\ AfniIteration(subj_list_all[idx + 1], r)
    /\ idx' = idx + 1
    /\ UNCHANGED <<cli, json_dir, out_dir, batch_num, subj_list_all, submitted>>
    /\ CliOnly

\* ashs.main, lines 282-301: one iteration of the subject loop.
AshsCheckSubj ==
    /\ cli = "ashs" /\ cli_pc = "select" /\ idx < Len(subj_list_all)
    /\ \E log_ashs \in BOOLEAN, t1 \in BOOLEAN, t2 \in BOOLEAN :
          LET subj == subj_list_all[idx + 1]
              ashs_missing == ~log_ashs
          IN  /\ obs' = [ObsNone EXCEPT !.log_ashs = log_ashs, !.t1 = t1, !.t2 = t2]
              /\ subj_dict' = IF t1 /\ t2 /\ ashs_missing
                              THEN Append(subj_dict,
                                      [subj |-> subj, Decon |-> FALSE, Decon_plan |-> 0])
                              ELSE subj_dict
    /\ idx' = idx + 1
    /\ UNCHANGED <<cli, json_dir, out_dir, batch_num, subj_list_all, submitted, cli_pc>>
    /\ CliOnly

\* fmriprep.main, lines 257-267: one iteration of the subject loop.
FmriprepCheckSubj ==
    /\ cli = "fmriprep" /\ cli_pc = "select" /\ idx < Len(subj_list_all)
    /\ \E t1_exists \in BOOLEAN :
          LET subj == subj_list_all[idx + 1]
          IN  /\ obs' = [ObsNone EXCEPT !.t1_exists = t1_exists]
              /\ subj_dict' = IF ~t1_exists
                              THEN Append(subj_dict,
                                      [subj |-> subj, Decon |-> FALSE, Decon_plan |-> 0])
                              ELSE subj_dict
    /\ idx' = idx + 1
    /\ UNCHANGED <<cli, json_dir, out_dir, batch_num, subj_list_all, submitted, cli_pc>>
    /\ CliOnly

\* The loop over subj_list_all is over: return when the queue is empty
\* ("kill for no subjects"), else make slurm_dir and go on to submit.
EndSelect ==
    /\ cli_pc = "select" /\ idx = Len(subj_list_all)
    /\ cli_pc' = IF Len(subj_dict) = 0 THEN "done" ELSE "submit"
    /\ UNCHANGED <<cli, json_dir, out_dir, batch_num, subj_list_all, idx, obs,
                   subj_dict, submitted>>
    /\ CliOnly

\* for subj in list(subj_dict)[:batch_num]: submit_jobs(...); time.sleep(3)
SubmitJob ==
    /\ cli_pc = "submit"
    /\ Len(submitted) < Len(PySlice(subj_dict, batch_num))
    /\ submitted' = Append(submitted, PySlice(subj_dict, batch_num)[Len(submitted) + 1])
    /\ UNCHANGED <<cli, json_dir, out_dir, batch_num, subj_list_all, idx, obs,
                   subj_dict, cli_pc>>
    /\ CliOnly

\* The submission loop is exhausted: main returns.
EndSubmit ==
    /\ cli_pc = "submit"
    /\ Len(submitted) = Len(PySlice(subj_dict, batch_num))
    /\ cli_pc' = "done"
    /\ UNCHANGED <<cli, json_dir, out_dir, batch_num, subj_list_all, idx, obs,
                   subj_dict, submitted>>
    /\ CliOnly

NextCli ==
    \/ AfniCheckSubj
    \/ AshsCheckSubj
    \/ FmriprepCheckSubj
    \/ EndSelect
    \/ SubmitJob
    \/ EndSubmit


(***************************************************************************)
(* workflow/control_afni.py: control_preproc, with resources/afni copy,    *)
(* process, masks, motion; and the job cli/afni_task_subj.py generates     *)
(***************************************************************************)
MaxRuns == 2          \* EPI runs of a task
MaxInvocations == 2   \* control_preproc calls on one work_dir

\* Files and afni_data keys are <<name, run>>, run 0 for what has no run.
AnatOrder ==
    << <<"struct-t1", "desc-preproc_T1w">>, <<"mask-brain", "desc-brain_mask">>,
       <<"mask-probGM", "label-GM_probseg">>, <<"mask-probWM", "label-WM_probseg">>,
       <<"mask-probCSF", "label-CSF_probseg">> >>

\* copy_data: the key and the file of each copy, in the order of the copies:
\* the five anatomical files, the EPI runs, the confounds of the runs.
CopyOrder(n) ==
    [i \in 1..5 |-> [key |-> <<AnatOrder[i][1], 0>>, file |-> <<AnatOrder[i][2], 0>>]]
    \o [r \in 1..n |-> [key |-> <<"epi-preproc", r>>, file |-> <<"desc-preproc_bold", r>>]]
    \o [r \in 1..n |-> [key |-> <<"mot-confound", r>>, file |-> <<"desc-confounds", r>>]]

NoData == [k \in {} |-> <<"", 0>>]

\* afni_data[key] = val
Put(d, key, val) == [k \in DOMAIN d \cup {key} |-> IF k = key THEN val ELSE d[k]]

\* [x for k, x in afni_data.items() if kind in k], as the runs in key order.
RECURSIVE RunsUpTo(_, _, _)
RunsUpTo(d, kind, n) ==
    IF n = 0 THEN <<>>
    ELSE IF <<kind, n>> \in DOMAIN d
         THEN Append(RunsUpTo(d, kind, n - 1), n)
         ELSE RunsUpTo(d, kind, n - 1)

RunsOf(d, kind) == RunsUpTo(d, kind, MaxRuns)

\* The order of the calls in control_preproc.
NextStepMut(step) ==
    CASE step = "copy_data" -> IF do_blur THEN "blur_epi" ELSE "make_intersect_mask"
      [] step = "blur_epi" -> "make_intersect_mask"
      [] step = "make_intersect_mask" -> "make_tissue_masks"
      [] step = "make_tissue_masks" -> "scale_epi"
      [] step = "scale_epi" -> "make_minimum_masks"
      [] step = "make_minimum_masks" -> "mot_files"
      [] step = "mot_files" -> "returned"

NextStep(step) ==
    CASE step = "copy_data" -> IF do_blur THEN "blur_epi" ELSE "make_intersect_mask"
      [] step = "blur_epi" -> "make_intersect_mask"
      [] step = "make_intersect_mask" -> "make_tissue_masks"
      [] step = "make_tissue_masks" -> "make_minimum_masks"
      [] step = "make_minimum_masks" -> "scale_epi"
      [] step = "scale_epi" -> "mot_files"
      [] step = "mot_files" -> "returned"

IdlePreproc ==
    /\ do_blur = FALSE /\ num_runs = 1 /\ kp_interm = FALSE /\ do_decon = FALSE
    /\ files = {}
    /\ afni_data = NoData
    /\ pp_pc = "job_done"
    /\ pp_i = 0
    /\ jobs = 0
    /\ steps = <<>>
    /\ job_lost = ""
    /\ run_no = 0
    /\ completed = FALSE
    /\ prev_data = NoData
    /\ final = {}
    /\ scratch_gone = FALSE

\* The job starts on an empty scratch directory.
InitPreproc ==
    /\ do_blur \in BOOLEAN /\ num_runs \in 1..MaxRuns
    /\ kp_interm \in BOOLEAN /\ do_decon \in BOOLEAN
    /\ files = {}
    /\ afni_data = NoData
    /\ pp_pc = "idle"
    /\ pp_i = 0
    /\ jobs = 0
    /\ steps = <<>>
    /\ job_lost = ""
    /\ run_no = 0
    /\ completed = FALSE
    /\ prev_data = NoData
    /\ final = {}
    /\ scratch_gone = FALSE

ppRest == <<ppArgs, run_no, completed, prev_data, final, scratch_gone>>

\* control_preproc is called: by the job, or again on the same work_dir after
\* an earlier call returned or raised.
ControlPreproc ==
    /\ pp_pc \in {"idle", "returned", "failed"}
    /\ run_no < MaxInvocations
    /\ run_no' = run_no + 1
    /\ completed' = (completed \/ pp_pc = "returned")
    /\ prev_data' = IF pp_pc = "returned" THEN afni_data ELSE prev_data
    /\ afni_data' = NoData
    /\ pp_pc' = "copy_data"
    /\ pp_i' = 0
    /\ jobs' = 0
    /\ steps' = <<>>
    /\ job_lost' = ""
    /\ UNCHANGED <<ppArgs, files, final, scratch_gone>>
    /\ PreprocOnly

\* An assert of a step fails, or a key it reads is not in afni_data.
Raise ==
    /\ pp_pc' = "failed"
    /\ pp_i' = 0
    /\ UNCHANGED <<files, afni_data, jobs, job_lost>>

\* copy_data: cp each file that is not in work_dir yet, assert it is there.
\* Copy number k + 1 is the first whose assert fails (none when k is all).
CopyData ==
    /\ pp_pc = "copy_data"
    /\ steps' = Append(steps, "copy_data")
    /\ LET order == CopyOrder(num_runs)
       IN  \E k \in 0..Len(order) :
              /\ k < Len(order) => order[k + 1].file \notin files
              /\ files' = files \cup {order[i].file : i \in 1..k}
              /\ IF k = Len(order)
                 THEN /\ afni_data' = [key \in {order[i].key : i \in 1..k} |->
                                          order[CHOOSE i \in 1..k : order[i].key = key].file]
                      /\ pp_pc' = NextStep("copy_data")
                 ELSE /\ afni_data' = NoData
                      /\ pp_pc' = "failed"
    /\ UNCHANGED <<pp_i, jobs, job_lost, ppRest>>
    /\ PreprocOnly

\* The pattern of every job-submitting step, for one output:
\*     if not os.path.exists(out): submit_hpc_sbatch(...)
\*     assert os.path.exists(out)
\*     afni_data[key] = out
\* submit_hpc_sbatch (sbatch --wait) is back when the job has ended, with or
\* without its output.  then_pc, then_i: where control is after the assert.
StepOutputNoAssert(step, out, key, then_pc, then_i) ==
    \/ /\ out \in files
       /\ afni_data' = Put(afni_data, key, out)
       /\ pp_pc' = then_pc /\ pp_i' = then_i
       /\ UNCHANGED <<files, jobs, job_lost>>
    \/ /\ out \notin files
       /\ jobs' = jobs + 1
       /\ afni_data' = Put(afni_data, key, out)
       /\ pp_pc' = then_pc /\ pp_i' = then_i
       /\ \E made \in BOOLEAN :
             IF made
             THEN files' = files \cup {out} /\ UNCHANGED job_lost
             ELSE UNCHANGED files /\ job_lost' = step

StepOutputAlways(step, out, key, then_pc, then_i) ==
    /\ jobs' = jobs + 1
    /\ files' = files \cup {out}
    /\ afni_data' = Put(afni_data, key, out)
    /\ pp_pc' = then_pc /\ pp_i' = then_i
    /\ UNCHANGED job_lost

StepOutput(step, out, key, then_pc, then_i) ==
    \/ /\ out \in files
       /\ afni_data' = Put(afni_data, key, out)
       /\ pp_pc' = then_pc /\ pp_i' = then_i
       /\ UNCHANGED <<files, jobs, job_lost>>
    \/ /\ out \notin files
       /\ jobs' = jobs + 1
       /\ \E made \in BOOLEAN :
             IF made
             THEN /\ files' = files \cup {out}
                  /\ afni_data' = Put(afni_data, key, out)
                  /\ pp_pc' = then_pc /\ pp_i' = then_i
                  /\ UNCHANGED job_lost
             ELSE /\ job_lost' = step
                  /\ pp_pc' = "failed" /\ pp_i' = 0
                  /\ UNCHANGED <<files, afni_data>>

\* A step with a loop appends itself to steps in its first iteration.
Started(step) == steps' = IF pp_i = 0 THEN Append(steps, step) ELSE steps

\* The EPI files a step works on: blurred when do_blur, else pre-processed.
EpiKind == IF do_blur THEN "epi-blur" ELSE "epi-preproc"
EpiFile(kind) == IF kind = "epi-blur" THEN "desc-smoothed_bold" ELSE "desc-preproc_bold"

\* process.blur_epi: one iteration of `for epi_file in epi_list`.
BlurEpi ==
    /\ pp_pc = "blur_epi"
    /\ Started("blur_epi")
    /\ LET epi_list == RunsOf(afni_data, "epi-preproc")
       IN  IF Len(epi_list) = 0
           THEN Raise
           ELSE LET r == epi_list[pp_i + 1]
                    last == pp_i + 1 = Len(epi_list)
                IN  StepOutput("blur_epi", <<"desc-smoothed_bold", r>>, <<"epi-blur", r>>,
                               IF last THEN NextStep("blur_epi") ELSE "blur_epi",
                               IF last THEN 0 ELSE pp_i + 1)
    /\ UNCHANGED ppRest
    /\ PreprocOnly

\* masks.make_intersect_mask
MakeIntersectMask ==
    /\ pp_pc = "make_intersect_mask"
    /\ Started("make_intersect_mask")
    /\ IF Len(RunsOf(afni_data, EpiKind)) = 0 \/ <<"mask-brain", 0>> \notin DOMAIN afni_data
       THEN Raise
       ELSE StepOutput("make_intersect_mask", <<"desc-intersect_mask", 0>>, <<"mask-int", 0>>,
                       NextStep("make_intersect_mask"), 0)
    /\ UNCHANGED ppRest
    /\ PreprocOnly

\* The tissue classes of tiss_list, in the order copy_data set their keys.
TissOrder == <<"GM", "WM", "CSF">>

ProbKey(t) ==
    CASE t = "GM" -> "mask-probGM" [] t = "WM" -> "mask-probWM" [] t = "CSF" -> "mask-probCSF"
ErodedKey(t) ==
    CASE t = "GM" -> "mask-erodedGM" [] t = "WM" -> "mask-erodedWM" [] t = "CSF" -> "mask-erodedCSF"
ErodedFile(t) ==
    CASE t = "GM" -> "desc-GMe_mask" [] t = "WM" -> "desc-WMe_mask" [] t = "CSF" -> "desc-CSFe_mask"

RECURSIVE TissUpTo(_, _)
TissUpTo(d, n) ==
    IF n = 0 THEN <<>>
    ELSE IF <<ProbKey(TissOrder[n]), 0>> \in DOMAIN d
         THEN Append(TissUpTo(d, n - 1), TissOrder[n])
         ELSE TissUpTo(d, n - 1)

\* masks.make_tissue_masks: one iteration of `for tiss in tiss_list`;
\* the GM iteration is skipped by `continue`.
MakeTissueMasks ==
    /\ pp_pc = "make_tissue_masks"
    /\ Started("make_tissue_masks")
    /\ LET tiss_list == TissUpTo(afni_data, 3)
       IN  IF Len(tiss_list) = 0 \/ <<"mask-brain", 0>> \notin DOMAIN afni_data
           THEN Raise
           ELSE LET tiss_type == tiss_list[pp_i + 1]
                    last == pp_i + 1 = Len(tiss_list)
                    then_pc == IF last THEN NextStep("make_tissue_masks")
                               ELSE "make_tissue_masks"
                    then_i == IF last THEN 0 ELSE pp_i + 1
                IN  IF tiss_type = "GM"
                    THEN /\ pp_pc' = then_pc /\ pp_i' = then_i
                         /\ UNCHANGED <<files, afni_data, jobs, job_lost>>
                    ELSE StepOutput("make_tissue_masks",
                                    <<ErodedFile(tiss_type), 0>>,
                                    <<ErodedKey(tiss_type), 0>>, then_pc, then_i)
    /\ UNCHANGED ppRest
    /\ PreprocOnly

\* masks.make_minimum_masks
MakeMinimumMasks ==
    /\ pp_pc = "make_minimum_masks"
    /\ Started("make_minimum_masks")
    /\ IF Len(RunsOf(afni_data, "epi-preproc")) = 0
          \/ <<"mask-brain", 0>> \notin DOMAIN afni_data
       THEN Raise
       ELSE StepOutput("make_minimum_masks", <<"desc-minval_mask", 0>>, <<"mask-min", 0>>,
                       NextStep("make_minimum_masks"), 0)
    /\ UNCHANGED ppRest
    /\ PreprocOnly

\* process.scale_epi: one iteration of `for run in epi_files`.
ScaleEpi ==
    /\ pp_pc = "scale_epi"
    /\ Started("scale_epi")
    /\ LET epi_files == RunsOf(afni_data, EpiKind)
       IN  IF Len(epi_files) = 0 \/ <<"mask-min", 0>> \notin DOMAIN afni_data
           THEN Raise
           ELSE LET r == epi_files[pp_i + 1]
                    last == pp_i + 1 = Len(epi_files)
                IN  StepOutput("scale_epi", <<"desc-scaled_bold", r>>, <<"epi-scale", r>>,
                               IF last THEN NextStep("scale_epi") ELSE "scale_epi",
                               IF last THEN 0 ELSE pp_i + 1)
    /\ UNCHANGED ppRest
    /\ PreprocOnly

\* The keys mot_files sets, and the file of each.
MotKeys ==
    [k \in {<<"mot-mean", 0>>, <<"mot-deriv", 0>>, <<"mot-censor", 0>>, <<"mot-censorInv", 0>>}
       |-> CASE k[1] = "mot-mean" -> <<"desc-mean", 0>>
             [] k[1] = "mot-deriv" -> <<"desc-deriv", 0>>
             [] k[1] = "mot-censor" -> <<"desc-censor", 0>>
             [] k[1] = "mot-censorInv" -> <<"desc-censorInv", 0>>]

\* motion.mot_files: writes the mean, derivative and censor files when the
\* censor file is not there; it submits no job.
MotFiles ==
    /\ pp_pc = "mot_files"
    /\ Started("mot_files")
    /\ IF Len(RunsOf(afni_data, "mot-confound")) = 0
       THEN Raise
       ELSE /\ files' = IF <<"desc-censor", 0>> \in files THEN files
                        ELSE files \cup {MotKeys[k] : k \in DOMAIN MotKeys}
            /\ afni_data' = [k \in DOMAIN afni_data \cup DOMAIN MotKeys |->
                                IF k \in DOMAIN MotKeys THEN MotKeys[k] ELSE afni_data[k]]
            /\ pp_pc' = NextStep("mot_files")
            /\ pp_i' = 0
            /\ UNCHANGED <<jobs, job_lost>>
    /\ UNCHANGED ppRest
    /\ PreprocOnly

\* The job's clean_list: suffixes of the intermediates it removes.
CleanList ==
    {"desc-preproc_bold", "desc-smoothed_bold", "label-GM_probseg", "label-WM_probseg",
     "label-CSF_probseg", "desc-preproc_T1w", "desc-minval_mask", "desc-GMe_mask"}

\* The job after control_preproc returned: control_deconvolution when
\* do_decon; its asserts end the job as those of control_preproc do.
JobDecon ==
    /\ pp_pc = "returned"
    /\ IF do_decon
       THEN \E ok \in BOOLEAN :
               IF ok THEN /\ files' = files \cup {<<"decon_stats_REML", 0>>}
                          /\ pp_pc' = "cleanup"
                     ELSE /\ pp_pc' = "failed"
                          /\ UNCHANGED files
       ELSE /\ pp_pc' = "cleanup"
            /\ UNCHANGED files
    /\ UNCHANGED <<afni_data, pp_i, jobs, steps, job_lost, ppRest>>
    /\ PreprocOnly

\* "clean up": remove the intermediates unless kp_interm.
JobCleanup ==
    /\ pp_pc = "cleanup"
    /\ files' = IF kp_interm THEN files ELSE {f \in files : f[1] \notin CleanList}
    /\ pp_pc' = "copy"
    /\ UNCHANGED <<afni_data, pp_i, jobs, steps, job_lost, ppRest>>
    /\ PreprocOnly

\* What a cp -r of a tree can leave at the destination: all of it, none of
\* it, or all but one file.
CpResults(tree) == {tree, {}} \cup {tree \ {f} : f \in tree}

\* "copy important files": cp -r <afni_dir>/<subj> <afni_final>; its exit
\* status is not read.
JobCopy ==
    /\ pp_pc = "copy"
    /\ \E arrived \in CpResults(files) : final' = final \cup arrived
    /\ pp_pc' = "rmtree"
    /\ UNCHANGED <<ppArgs, files, afni_data, pp_i, jobs, steps, job_lost,
                   run_no, completed, prev_data, scratch_gone>>
    /\ PreprocOnly

\* "turn out the lights": shutil.rmtree(<afni_dir>/<subj>)
JobRmtree ==
    /\ pp_pc = "rmtree"
    /\ files' = {}
    /\ scratch_gone' = TRUE
    /\ pp_pc' = "job_done"
    /\ UNCHANGED <<ppArgs, afni_data, pp_i, jobs, steps, job_lost,
                   run_no, completed, prev_data, final>>
    /\ PreprocOnly

NextPreproc ==
    \/ ControlPreproc
    \/ CopyData
    \/ BlurEpi
    \/ MakeIntersectMask
    \/ MakeTissueMasks
    \/ MakeMinimumMasks
    \/ ScaleEpi
    \/ MotFiles
    \/ JobDecon
    \/ JobCleanup
    \/ JobCopy
    \/ JobRmtree

(***************************************************************************)
(* check_preproc and completed_preprocessing.tsv                           *)
(***************************************************************************)
MaxTime == 2        \* modification times handed out to derivative files
MaxCalls == 2       \* check_preproc calls followed

\* Subject IDs "sub-4" and "sub-41"; "sub-" is one character of the model.
Subjects == {<<"sub-", "4">>, <<"sub-", "4", "1">>}

\* Two of the columns of col_names after subjID.
Cols == {"wme_mask", "ashs_L"}

\* Order of the characters, and of strings as sorted() and sort_values use it.
Ord(c) == CASE c = "sub-" -> 0 [] c = "1" -> 1 [] c = "4" -> 4

RECURSIVE StrLeq(_, _)
StrLeq(a, b) ==
    IF a = <<>> THEN TRUE
    ELSE IF b = <<>> THEN FALSE
    ELSE IF Head(a) = Head(b) THEN StrLeq(Tail(a), Tail(b))
    ELSE Ord(Head(a)) < Ord(Head(b))

\* sorted(<set of strings>)
RECURSIVE Sorted(_)
Sorted(S) ==
    IF S = {} THEN <<>>
    ELSE LET m == CHOOSE x \in S : \A y \in S : StrLeq(x, y)
         IN  <<m>> \o Sorted(S \ {m})

\* df_comp.sort_values(by=["subjID"])
RECURSIVE SortValues(_)
SortValues(df) ==
    IF df = <<>> THEN <<>>
    ELSE LET m == CHOOSE k \in 1..Len(df) :
                    \A j \in 1..Len(df) :
                        /\ StrLeq(df[k].subjID, df[j].subjID)
                        /\ df[j].subjID = df[k].subjID => k <= j
         IN  <<df[m]>> \o SortValues(Remove(df, m))

NoCells == [c \in Cols |-> 0]
NoDeriv == [s \in Subjects |-> NoCells]

IdleCheck ==
    /\ dset = {} /\ deriv = NoDeriv /\ now = 1
    /\ log = <<>>
    /\ new_df = FALSE /\ one_subj = <<>>
    /\ guid = {} /\ excluded = {}
    /\ ck_calls = MaxCalls /\ ck_crashed = FALSE
    /\ prev_log = <<>>

\* No subject has data yet; the log has its header line only.
InitCheck ==
    /\ dset = {} /\ deriv = NoDeriv /\ now = 1
    /\ log = <<>>
    /\ new_df = FALSE /\ one_subj = <<>>
    /\ guid = {} /\ excluded = {}
    /\ ck_calls = 0 /\ ck_crashed = FALSE
    /\ prev_log = <<>>

\* A subject's data arrives in dset.
DsetAdd ==
    /\ \E s \in Subjects \ dset : dset' = dset \cup {s}
    /\ UNCHANGED <<deriv, now, log, new_df, one_subj, guid, excluded,
                   ck_calls, ck_crashed, prev_log>>
    /\ CheckOnly

\* A pipeline writes (or writes again) a derivative file of a subject.
DerivWrite ==
    /\ now <= MaxTime
    /\ \E s \in dset, c \in Cols : deriv' = [deriv EXCEPT ![s][c] = now]
    /\ now' = now + 1
    /\ UNCHANGED <<dset, log, new_df, one_subj, guid, excluded,
                   ck_calls, ck_crashed, prev_log>>
    /\ CheckOnly

\* "determine subjects from dset*pseudo_guid_list"
SubjList(one, g, ex) ==
    IF one # <<>> THEN <<one>>
    ELSE Sorted({x \in dset : x \notin ex /\ x \in g})

\* "make new completed_tsv", "read in completed_tsv"
StartFrameMut(nd, subj_list) == log

StartFrame(nd, subj_list) ==
    IF nd THEN [k \in 1..Len(subj_list) |-> [subjID |-> subj_list[k], cells |-> NoCells]]
    ELSE log

\* "check each subject for data in expected_dict", from subject i on.
\* .bool() raises ValueError unless exactly one row is the subject's.
RECURSIVE CheckSubjects(_, _, _)
CheckSubjects(df, subj_list, i) ==
    IF i > Len(subj_list) THEN [ok |-> TRUE, df |-> df]
    ELSE LET subj == subj_list[i]
             contains == \E k \in 1..Len(df) : IsSubstr(subj, df[k].subjID)
             df1 == IF contains THEN df
                    ELSE Append(df, [subjID |-> subj, cells |-> NoCells])
             ind_row == {k \in 1..Len(df1) : df1[k].subjID = subj}
         IN  IF Cardinality(ind_row) # 1 THEN [ok |-> FALSE, df |-> df1]
             ELSE LET k == CHOOSE k \in ind_row : TRUE
                      row == [subjID |-> subj,
                              cells |-> [c \in Cols |->
                                           IF df1[k].cells[c] = 0 THEN deriv[subj][c]
                                           ELSE df1[k].cells[c]]]
                  IN  CheckSubjects([df1 EXCEPT ![k] = row], subj_list, i + 1)

\* One call of check_preproc; the pseudo-GUID list is fetched in the call.
CheckPreproc ==
    /\ ck_calls < MaxCalls
    /\ \E nd \in BOOLEAN, one \in Subjects \cup {<<>>}, g \in SUBSET Subjects :
          \E ex \in SUBSET g :
             \E subj_list \in {SubjList(one, g, ex)} :
             \E start \in {StartFrame(nd, subj_list)} :
             \E res \in {CheckSubjects(start, subj_list, 1)} :
                 /\ new_df' = nd /\ one_subj' = one
                 /\ guid' = g /\ excluded' = ex
                 /\ ck_crashed' = ~res.ok
                 /\ log' = IF res.ok THEN SortValues(res.df) ELSE start
    /\ ck_calls' = ck_calls + 1
    /\ prev_log' = log
    /\ UNCHANGED <<dset, deriv, now>>
    /\ CheckOnly

NextCheck ==
    \/ DsetAdd
    \/ DerivWrite
    \/ CheckPreproc

(***************************************************************************)
(* control_fmriprep                                                        *)
(***************************************************************************)
MaxFpCalls == 2     \* control_fmriprep calls for the subject

IdleFmriprep ==
    /\ fp_version = "new" /\ fp_pc = "idle"
    /\ dset_t1 = FALSE /\ scratch_t1 = FALSE
    /\ fs_subj = "none" /\ fp_subj = "none"
    /\ fs_found = "unset" /\ fs_ran = FALSE /\ fp_started = FALSE
    /\ fs_at_start = "unset"
    /\ fp_calls = MaxFpCalls

\* Scratch is empty, or holds what an earlier job of the subject left.
InitFmriprep ==
    /\ fp_version \in {"new", "old"} /\ fp_pc = "idle"
    /\ dset_t1 \in BOOLEAN /\ scratch_t1 = FALSE
    /\ fs_subj \in {"none", "partial", "done"}
    /\ fp_subj \in {"none", "partial", "done"}
    /\ fs_found = "unset" /\ fs_ran = FALSE /\ fp_started = FALSE
    /\ fs_at_start = "unset"
    /\ fp_calls = 0

fpDisk == <<dset_t1, scratch_t1, fs_subj, fp_subj>>
fpHist == <<fs_found, fs_ran, fp_started, fs_at_start>>

\* control_fmriprep is called for the subject.
ControlFmriprep ==
    /\ fp_pc \in {"idle", "failed"}
    /\ fp_calls < MaxFpCalls
    /\ fp_calls' = fp_calls + 1
    /\ fp_pc' = "t1"
    /\ fs_found' = "unset" /\ fs_ran' = FALSE /\ fp_started' = FALSE
    /\ fs_at_start' = "unset"
    /\ UNCHANGED <<fp_version, fpDisk>>
    /\ FmriprepOnly

\* new: "copy data to scratch ..., identify t1w"; old: "orient to data".
\* The T1w file is found, or the assert on t1_list ends the call.
FindT1 ==
    /\ fp_pc = "t1"
    /\ IF fp_version = "new"
       THEN IF scratch_t1
            THEN UNCHANGED scratch_t1 /\ fp_pc' = "check_fs"
            ELSE \E copied \in BOOLEAN :
                    /\ scratch_t1' = (dset_t1 /\ copied)
                    /\ fp_pc' = IF scratch_t1' THEN "check_fs" ELSE "failed"
       ELSE /\ UNCHANGED scratch_t1
            /\ fp_pc' = IF dset_t1 THEN "check_fs" ELSE "failed"
    /\ UNCHANGED <<fp_version, dset_t1, fs_subj, fp_subj, fpHist, fp_calls>>
    /\ FmriprepOnly

\* os.path.exists(check_freesurfer)
FsExistsMut == fs_subj # "none"

FsExists == fs_subj = "done"

\* "do freesurfer if necessary, clear previous attempts": the test, and in
\* its branch rmtree and makedirs of <freesurfer_dir>/<subj>/mri/orig.
\* old: the call of run_freesurfer has five arguments for the four
\* parameters of preprocess.run_freesurfer and raises TypeError.
CheckFreesurfer ==
    /\ fp_pc = "check_fs"
    /\ fs_found' = IF FsExists THEN "yes" ELSE "no"
    /\ IF FsExists
       THEN /\ UNCHANGED fs_subj
            /\ fp_pc' = IF fp_version = "new" THEN "assert_fs" ELSE "start_fp"
       ELSE /\ fs_subj' = "partial"
            /\ fp_pc' = IF fp_version = "new" THEN "run_fs" ELSE "failed"
    /\ UNCHANGED <<fp_version, dset_t1, scratch_t1, fp_subj, fs_ran, fp_started,
                   fs_at_start, fp_calls>>
    /\ FmriprepOnly

\* preprocess.run_freesurfer: the job has ended, with or without
\* mri/aparc+aseg.mgz; the assert on check_file.
RunFreesurfer ==
    /\ fp_pc = "run_fs"
    /\ fs_ran' = TRUE
    /\ \E made \in BOOLEAN :
          /\ fs_subj' = IF made THEN "done" ELSE "partial"
          /\ fp_pc' = IF made THEN "assert_fs" ELSE "failed"
    /\ UNCHANGED <<fp_version, dset_t1, scratch_t1, fp_subj, fs_found, fp_started,
                   fs_at_start, fp_calls>>
    /\ FmriprepOnly

\* "check the freesurfer ran"
AssertFreesurfer ==
    /\ fp_pc = "assert_fs"
    /\ fp_pc' = IF FsExists THEN "start_fp" ELSE "failed"
    /\ UNCHANGED <<fp_version, fpDisk, fpHist, fp_calls>>
    /\ FmriprepOnly

\* "clear previous attempts, do fmriprep": rmtree of <fmriprep_dir>/<subj>,
\* then the call of run_fmriprep.
StartFmriprep ==
    /\ fp_pc = "start_fp"
    /\ fp_subj' = "none"
    /\ fp_started' = TRUE
    /\ fs_at_start' = fs_subj
    /\ fp_pc' = "run_fp"
    /\ UNCHANGED <<fp_version, dset_t1, scratch_t1, fs_subj, fs_found, fs_ran, fp_calls>>
    /\ FmriprepOnly

\* preprocess.run_fmriprep: the job has ended, with or without
\* desc-preproc_T1w; the assert on t1_found, and new: "check the fmriprep ran".
RunFmriprep ==
    /\ fp_pc = "run_fp"
    /\ \E made \in BOOLEAN :
          /\ fp_subj' = IF made THEN "done" ELSE "partial"
          /\ fp_pc' = IF made THEN "returned" ELSE "failed"
    /\ UNCHANGED <<fp_version, dset_t1, scratch_t1, fs_subj, fpHist, fp_calls>>
    /\ FmriprepOnly

\* The job after control_fmriprep returned: copies to the project
\* directory, then "turn out the lights".
FmriprepLights ==
    /\ fp_pc = "returned"
    /\ fs_subj' = "none"
    /\ fp_subj' = "none"
    /\ fp_pc' = "idle"
    /\ UNCHANGED <<fp_version, dset_t1, scratch_t1, fpHist, fp_calls>>
    /\ FmriprepOnly

NextFmriprep ==
    \/ ControlFmriprep
    \/ FindT1
    \/ CheckFreesurfer
    \/ RunFreesurfer
    \/ AssertFreesurfer
    \/ StartFmriprep
    \/ RunFmriprep
    \/ FmriprepLights

(***************************************************************************)
(* run_ashs                                                                *)
(***************************************************************************)
MaxAshsCalls == 2   \* run_ashs calls for the subject

\* <subj>_left_lfseg_corr_usegray.nii.gz, the file run_ashs tests for.
LeftLfseg == "left_lfseg_corr_usegray"

\* Files ASHS writes to <work_dir>/final.
AshsFiles == {LeftLfseg, "right_lfseg_corr_usegray", "left_lfseg_heur"}

\* os.listdir gives the entries in arbitrary order.
Listings(S) ==
    {q \in [1..Cardinality(S) -> S] : \A i, j \in 1..Cardinality(S) : q[i] = q[j] => i = j}

IdleAshs ==
    /\ ashs_pc = "idle"
    /\ work_final = {} /\ deriv_files = {}
    /\ ashs_out = <<>> /\ ashs_i = 0
    /\ ashs_removed = FALSE /\ ashs_lost = {}
    /\ ashs_calls = MaxAshsCalls

\* Neither directory has a file of the subject.
InitAshs ==
    /\ ashs_pc = "idle"
    /\ work_final = {} /\ deriv_files = {}
    /\ ashs_out = <<>> /\ ashs_i = 0
    /\ ashs_removed = FALSE /\ ashs_lost = {}
    /\ ashs_calls = 0

\* run_ashs is called: "set up" and the test of "run ASHS if needed".
RunAshs ==
    /\ ashs_pc \in {"idle", "returned", "failed"}
    /\ ashs_calls < MaxAshsCalls
    /\ ashs_calls' = ashs_calls + 1
    /\ ashs_pc' = IF LeftLfseg \notin deriv_files THEN "job" ELSE "cleanup"
    /\ ashs_out' = <<>> /\ ashs_i' = 0
    /\ ashs_removed' = FALSE
    /\ UNCHANGED <<work_final, deriv_files, ashs_lost>>
    /\ AshsOnly

\* The ASHS job has ended with some of its files written; the listing of
\* <work_dir>/final, FileNotFoundError when it is empty.
AshsJob ==
    /\ ashs_pc = "job"
    /\ \E written \in SUBSET AshsFiles :
          /\ work_final' = work_final \cup written
          /\ IF work_final' = {}
             THEN ashs_out' = <<>> /\ ashs_pc' = "failed"
             ELSE /\ ashs_out' \in Listings(work_final')
                  /\ ashs_pc' = "copy"
    /\ UNCHANGED <<deriv_files, ashs_i, ashs_removed, ashs_lost, ashs_calls>>
    /\ AshsOnly

\* "move relevant files": one iteration of `for ashs_file in ashs_out`;
\* cp when the file is not in deriv_dir, then the assert.
AshsCopy ==
    /\ ashs_pc = "copy"
    /\ LET ashs_file == ashs_out[ashs_i + 1]
           last == ashs_i + 1 = Len(ashs_out)
       IN  \E copied \in BOOLEAN :
              /\ deriv_files' = IF ashs_file \notin deriv_files /\ copied
                                THEN deriv_files \cup {ashs_file}
                                ELSE deriv_files
              /\ IF ashs_file \in deriv_files'
                 THEN /\ ashs_pc' = IF last THEN "cleanup" ELSE "copy"
                      /\ ashs_i' = ashs_i + 1
                 ELSE /\ ashs_pc' = "failed"
                      /\ UNCHANGED ashs_i
    /\ UNCHANGED <<work_final, ashs_out, ashs_removed, ashs_lost, ashs_calls>>
    /\ AshsOnly

\* "clean up", and the return.
AshsCleanup ==
    /\ ashs_pc = "cleanup"
    /\ IF LeftLfseg \in deriv_files /\ LeftLfseg \in work_final
       THEN /\ ashs_lost' = work_final \ deriv_files
            /\ work_final' = {}
            /\ ashs_removed' = TRUE
       ELSE UNCHANGED <<work_final, ashs_removed, ashs_lost>>
    /\ ashs_pc' = "returned"
    /\ UNCHANGED <<deriv_files, ashs_out, ashs_i, ashs_calls>>
    /\ AshsOnly

NextAshs ==
    \/ RunAshs
    \/ AshsJob
    \/ AshsCopy
    \/ AshsCleanup

(***************************************************************************)
(* run_afni, run_ashs: the controller loops                                *)
(***************************************************************************)
MaxCtlSubj == 2     \* subjects of the project
MaxCtlBatch == 2    \* largest batch_num tried

AfniMaxWaits == 14  \* run_afni: while_count > 14
AshsMaxWaits == 72  \* run_ashs: while_count > 72

MaxWaits == IF ctl = "run_afni" THEN AfniMaxWaits ELSE AshsMaxWaits

\* while_count += 1.  The loops only test while_count > MaxWaits, so counts
\* above MaxWaits are kept as MaxWaits + 1.
CountUp(n) == IF n > MaxWaits THEN n ELSE n + 1

\* The controller's own job, a subject's job, another job of the user.
CtlJob == [id |-> 0, name |-> <<"c">>]
SubjJob(subj) == [id |-> subj, name |-> <<"s">>]
UserJob == [id |-> -1, name |-> <<"o">>]

\* out_lines.count("\n")
CountNewlines(text) == Cardinality({i \in 1..Len(text) : text[i] = "\n"})

\* The loop goes on to submit: the test is `not out_lines.count("\n") < 3`.
QueueQuietMut(text) == CountNewlines(text) < 4

QueueQuiet(text) == CountNewlines(text) < 3

IdleCtl ==
    /\ ctl = "run_afni" /\ ctl_pc = "done"
    /\ ctl_queue = <<>> /\ out_lines = <<>> /\ ctl_seen = <<>>
    /\ ctl_while_count = 0 /\ work_status = FALSE
    /\ ctl_json_dir = FALSE /\ ctl_json = {}
    /\ ctl_batch = 0
    /\ todo = {}
    /\ ctl_subj_list = <<>> /\ ctl_i = 0
    /\ ctl_decon_plan = 0
    /\ ctl_submitted = {}

\* The controller was started with sbatch and is about to enter its loop.
InitCtl ==
    /\ ctl \in {"run_afni", "run_ashs"} /\ ctl_pc = "check"
    /\ ctl_queue = <<CtlJob>> /\ out_lines = <<>> /\ ctl_seen = <<>>
    /\ ctl_while_count = 0 /\ work_status = TRUE
    /\ ctl_json_dir \in (IF ctl = "run_afni" THEN BOOLEAN ELSE {FALSE})
    /\ ctl_json \in (IF ctl_json_dir THEN SUBSET (1..MaxCtlSubj) ELSE {{}})
    /\ ctl_batch \in 1..MaxCtlBatch
    /\ todo \in SUBSET (1..MaxCtlSubj)
    /\ ctl_subj_list = <<>> /\ ctl_i = 0
    /\ ctl_decon_plan = 0
    /\ ctl_submitted = {}

ctlArgs == <<ctl, ctl_json_dir, ctl_json, ctl_batch>>

\* The subject loop of one iteration over subjects n..MaxCtlSubj, in sorted
\* order: [ok, subj_list, decon_plan]; ok is FALSE when run_afni's assert on
\* decon_glob fails.
RECURSIVE SelectFrom(_, _, _)
SelectFrom(n, list, plan) ==
    IF n > MaxCtlSubj THEN [ok |-> TRUE, subj_list |-> list, decon_plan |-> plan]
    ELSE IF ctl_json_dir /\ n \notin ctl_json
         THEN [ok |-> FALSE, subj_list |-> list, decon_plan |-> plan]
         ELSE SelectFrom(n + 1,
                         IF n \in todo THEN Append(list, n) ELSE list,
                         IF ctl_json_dir THEN n ELSE 0)

\* Top of the loop: squeue, and when the queue is busy nothing else; when it
\* is quiet the subject loop and the test that ends the loop.
CtlCheck ==
    /\ ctl_pc = "check"
    /\ out_lines' = SqueueText(ctl_queue)
    /\ ctl_seen' = ctl_queue
    /\ IF ~QueueQuiet(out_lines')
       THEN /\ ctl_pc' = "wait"
            /\ UNCHANGED <<work_status, ctl_subj_list, ctl_decon_plan>>
       ELSE \E sel \in {SelectFrom(1, <<>>, ctl_decon_plan)} :
               /\ ctl_subj_list' = sel.subj_list
               /\ ctl_decon_plan' = sel.decon_plan
               /\ IF sel.ok
                  THEN /\ work_status' =
                            ~(Len(sel.subj_list) = 0 \/ ctl_while_count > MaxWaits)
                       /\ ctl_pc' = "submit"
                  ELSE /\ ctl_pc' = "crashed"
                       /\ UNCHANGED work_status
    /\ ctl_i' = 0
    /\ UNCHANGED <<ctlArgs, ctl_queue, ctl_while_count, todo, ctl_submitted>>
    /\ CtlOnly

\* "Waiting for jobs to finish.": sleep, while_count += 1, continue.
CtlWait ==
    /\ ctl_pc = "wait"
    /\ ctl_while_count' = CountUp(ctl_while_count)
    /\ ctl_pc' = "check"
    /\ UNCHANGED <<ctlArgs, ctl_queue, out_lines, ctl_seen, work_status, todo,
                   ctl_subj_list, ctl_i, ctl_decon_plan, ctl_submitted>>
    /\ CtlOnly

\* One iteration of `for subj in subj_list[:batch_num]`: submit_jobs.
CtlSubmit ==
    /\ ctl_pc = "submit"
    /\ ctl_i < Len(PySlice(ctl_subj_list, ctl_batch))
    /\ LET subj == ctl_subj_list[ctl_i + 1]
       IN  /\ ctl_queue' = Append(ctl_queue, SubjJob(subj))
           /\ ctl_submitted' = ctl_submitted \cup {[subj |-> subj, plan |-> ctl_decon_plan]}
    /\ ctl_i' = ctl_i + 1
    /\ UNCHANGED <<ctlArgs, ctl_pc, out_lines, ctl_seen, ctl_while_count, work_status,
                   todo, ctl_subj_list, ctl_decon_plan>>
    /\ CtlOnly

\* The batch is out: "pause while loop".
CtlEndBatch ==
    /\ ctl_pc = "submit"
    /\ ctl_i = Len(PySlice(ctl_subj_list, ctl_batch))
    /\ ctl_pc' = "sleep"
    /\ UNCHANGED <<ctlArgs, ctl_queue, out_lines, ctl_seen, ctl_while_count, work_status,
                   todo, ctl_subj_list, ctl_i, ctl_decon_plan, ctl_submitted>>
    /\ CtlOnly

\* The pause is over: while_count += 1 and the test of `while work_status`;
\* when the loop ends the controller's job leaves the queue.
CtlWake ==
    /\ ctl_pc = "sleep"
    /\ ctl_while_count' = CountUp(ctl_while_count)
    /\ IF work_status
       THEN ctl_pc' = "check" /\ UNCHANGED ctl_queue
       ELSE ctl_pc' = "done" /\ ctl_queue' = Tail(ctl_queue)
    /\ UNCHANGED <<ctlArgs, out_lines, ctl_seen, work_status, todo, ctl_subj_list,
                   ctl_i, ctl_decon_plan, ctl_submitted>>
    /\ CtlOnly

\* A job other than the controller's ends; a subject's job leaves the
\* subject's output behind, or fails.
CtlJobEnds ==
    /\ ctl_pc \notin {"done", "crashed"}
    /\ \E k \in 2..Len(ctl_queue) :
          /\ ctl_queue' = Remove(ctl_queue, k)
          /\ \E made \in BOOLEAN :
                todo' = IF made /\ ctl_queue[k] # UserJob
                        THEN todo \ {ctl_queue[k].id} ELSE todo
    /\ UNCHANGED <<ctlArgs, ctl_pc, out_lines, ctl_seen, ctl_while_count, work_status,
                   ctl_subj_list, ctl_i, ctl_decon_plan, ctl_submitted>>
    /\ CtlOnly

\* The user submits another job.
CtlOtherJob ==
    /\ ctl_pc \notin {"done", "crashed"}
    /\ \A j \in 1..Len(ctl_queue) : ctl_queue[j] # UserJob
    /\ ctl_queue' = Append(ctl_queue, UserJob)
    /\ UNCHANGED <<ctlArgs, ctl_pc, out_lines, ctl_seen, ctl_while_count, work_status,
                   todo, ctl_subj_list, ctl_i, ctl_decon_plan, ctl_submitted>>
    /\ CtlOnly

NextCtl ==
    \/ CtlCheck
    \/ CtlWait
    \/ CtlSubmit
    \/ CtlEndBatch
    \/ CtlWake
    \/ CtlJobEnds
    \/ CtlOtherJob

(***************************************************************************)
(* motion.py: mot_files, the censor vector                                 *)
(***************************************************************************)
MaxMotRuns == 2     \* confound files (runs) of the task
MaxVols == 3        \* volumes of a run

\* What mot_files reads of one desc-confounds_timeseries.tsv: its number of
\* rows and its motion_outlier columns.  fMRIPrep writes one such column per
\* outlier volume, 1 at that volume and 0 elsewhere; a column is given here
\* by the volume it flags.  Volumes count from 0 as the frame's index does.
Confounds ==
    UNION {[n : {n}, out : SUBSET (0..(n - 1))] : n \in 1..MaxVols}

\* df_cen["sum"] = df_cen.iloc[:, :].sum(1)
SumCol(conf) ==
    [i \in 1..conf.n |-> Cardinality({c \in conf.out : c = i - 1})]

\* df_cen.replace({0: 1, 1: 0})
Invert(col) ==
    [i \in 1..Len(col) |-> IF col[i] = 0 THEN 1 ELSE IF col[i] = 1 THEN 0 ELSE col[i]]

\* df_cen.index[df_cen["sum"] == 0].tolist()
ZeroPos(col) == {i - 1 : i \in {k \in 1..Len(col) : col[k] = 0}}

ZeroFillMut(zero_pos) == {x + 1 : x \in zero_pos}

\* zero_fill = [x - 1 for x in zero_pos]; if -1 in zero_fill: remove(-1)
ZeroFill(zero_pos) == {x - 1 : x \in zero_pos} \ {-1}

\* df_cen.loc[zero_fill, "sum"] = 0
SetZero(col, zero_fill) ==
    [i \in 1..Len(col) |-> IF (i - 1) \in zero_fill THEN 0 ELSE col[i]]

\* The sum column of df_cen for one confounds file.
CensorRun(conf) ==
    LET col == Invert(SumCol(conf))
    IN  SetZero(col, ZeroFill(ZeroPos(col)))

\* pd.concat(censor_cat, ignore_index=True)
RECURSIVE PdConcat(_)
PdConcat(frames) ==
    IF frames = <<>> THEN <<>> ELSE Head(frames) \o PdConcat(Tail(frames))

IdleMot ==
    /\ mot_pc = "idle"
    /\ mot_conf = <<>> /\ censor_cat = <<>> /\ df_censor_cat = <<>>

\* mot_files is called; the censor file does not exist yet.  mot_list holds
\* the confound files in the order of afni_data's mot-confound keys, which
\* copy_data numbers in the sorted order of the file names.
InitMot ==
    /\ mot_pc = "run"
    /\ mot_conf \in UNION {[1..k -> Confounds] : k \in 0..MaxMotRuns}
    /\ censor_cat = <<>> /\ df_censor_cat = <<>>

\* assert num_mot > 0
MotAssert ==
    /\ mot_pc = "run"
    /\ Len(mot_conf) = 0
    /\ mot_pc' = "crashed"
    /\ UNCHANGED <<mot_conf, censor_cat, df_censor_cat>>
    /\ MotOnly

\* One iteration of `for mot_file in mot_list`.
MotRun ==
    /\ mot_pc = "run"
    /\ Len(censor_cat) < Len(mot_conf)
    /\ censor_cat' = Append(censor_cat, CensorRun(mot_conf[Len(censor_cat) + 1]))
    /\ UNCHANGED <<mot_pc, mot_conf, df_censor_cat>>
    /\ MotOnly

\* After the loop: concatenate and write the sum column.
MotCat ==
    /\ mot_pc = "run"
    /\ Len(mot_conf) > 0
    /\ Len(censor_cat) = Len(mot_conf)
    /\ df_censor_cat' = PdConcat(censor_cat)
    /\ mot_pc' = "done"
    /\ UNCHANGED <<mot_conf, censor_cat>>
    /\ MotOnly

NextMot ==
    \/ MotAssert
    \/ MotRun
    \/ MotCat

(***************************************************************************)
(* afni_task_subj.py, afni_resting_subj.py: two jobs of one subject        *)
(***************************************************************************)
MaxCjSteps == 2     \* workflow steps of a job, each leaving one file

\* Two calls of main for the same subject, one per session (or task); call j
\* is for session j.
CjJobs == {1, 2}

CjFiles == 1..MaxCjSteps

\* py_script = <slurm_dir>/preproc_decon_<subj_num>.py: one file for both
\* calls when their slurm_dir is the same.
ScriptOf(j) == IF cj_shared THEN 1 ELSE j

\* clean_list: the intermediates, here the first step's file.
CjCleanList == {1}

CjRunning(j) == cj_pc[j] \in {"work", "cleanup", "copy", "lights"}

IdleCj ==
    /\ cj_shared = FALSE
    /\ cj_kp = [j \in CjJobs |-> FALSE]
    /\ cj_script = [f \in CjJobs |-> 0]
    /\ cj_pc = [j \in CjJobs |-> "done"]
    /\ cj_sess = [j \in CjJobs |-> 0]
    /\ cj_step = [j \in CjJobs |-> 0]
    /\ cj_scratch = [s \in CjJobs |-> {}]
    /\ cj_final = [s \in CjJobs |-> {}]

\* Both calls of main are about to call submit_jobs for the subject.
InitCj ==
    /\ cj_shared \in BOOLEAN
    /\ cj_kp \in [CjJobs -> BOOLEAN]
    /\ cj_script = [f \in CjJobs |-> 0]
    /\ cj_pc = [j \in CjJobs |-> "start"]
    /\ cj_sess = [j \in CjJobs |-> 0]
    /\ cj_step = [j \in CjJobs |-> 0]
    /\ cj_scratch = [s \in CjJobs |-> {}]
    /\ cj_final = [s \in CjJobs |-> {}]

\* "write script for review": open(py_script, "w").
CjWrite(j) ==
    /\ cj_pc[j] = "start"
    /\ cj_script' = [cj_script EXCEPT ![ScriptOf(j)] = j]
    /\ cj_pc' = [cj_pc EXCEPT ![j] = "written"]
    /\ UNCHANGED <<cj_shared, cj_kp, cj_sess, cj_step, cj_scratch, cj_final>>
    /\ CjOnly

\* sbatch py_script: Slurm takes the script as the file holds it now.
CjSbatch(j) ==
    /\ cj_pc[j] = "written"
    /\ cj_sess' = [cj_sess EXCEPT ![j] = cj_script[ScriptOf(j)]]
    /\ cj_pc' = [cj_pc EXCEPT ![j] = "work"]
    /\ UNCHANGED <<cj_shared, cj_kp, cj_script, cj_step, cj_scratch, cj_final>>
    /\ CjOnly

\* One step of control_preproc / control_deconvolution in the job's session
\* directory: it reads the file of the step before and the assert on its
\* own output ends the job when that output is missing.
CjWork(j) ==
    /\ cj_pc[j] = "work"
    /\ cj_step[j] < MaxCjSteps
    /\ LET k == cj_step[j]
           s == cj_sess[j]
       IN  IF k = 0 \/ k \in cj_scratch[s]
           THEN /\ cj_scratch' = [cj_scratch EXCEPT ![s] = @ \cup {k + 1}]
                /\ cj_step' = [cj_step EXCEPT ![j] = k + 1]
                /\ UNCHANGED cj_pc
           ELSE /\ cj_pc' = [cj_pc EXCEPT ![j] = "crashed"]
                /\ UNCHANGED <<cj_step, cj_scratch>>
    /\ UNCHANGED <<cj_shared, cj_kp, cj_script, cj_sess, cj_final>>
    /\ CjOnly

\* The workflow has returned.
CjWorkDone(j) ==
    /\ cj_pc[j] = "work"
    /\ cj_step[j] = MaxCjSteps
    /\ cj_pc' = [cj_pc EXCEPT ![j] = "cleanup"]
    /\ UNCHANGED <<cj_shared, cj_kp, cj_script, cj_sess, cj_step, cj_scratch, cj_final>>
    /\ CjOnly

\* "clean up": unless kp_interm, remove sbatch_out and the clean_list files
\* of the job's session directory; rmtree raises when the directory is gone.
CjCleanup(j) ==
    /\ cj_pc[j] = "cleanup"
    /\ LET s == cj_sess[j]
       IN  IF cj_kp[j]
           THEN /\ cj_pc' = [cj_pc EXCEPT ![j] = "copy"]
                /\ UNCHANGED cj_scratch
           ELSE IF cj_scratch[s] = {}
           THEN /\ cj_pc' = [cj_pc EXCEPT ![j] = "crashed"]
                /\ UNCHANGED cj_scratch
           ELSE /\ cj_pc' = [cj_pc EXCEPT ![j] = "copy"]
                /\ cj_scratch' = [cj_scratch EXCEPT ![s] = @ \ CjCleanList]
    /\ UNCHANGED <<cj_shared, cj_kp, cj_script, cj_sess, cj_step, cj_final>>
    /\ CjOnly

\* cp -r <afni_dir>/<subj> <afni_final>: the subject's whole directory.
CjCopy(j) ==
    /\ cj_pc[j] = "copy"
    /\ cj_final' = [s \in CjJobs |-> cj_final[s] \cup cj_scratch[s]]
    /\ cj_pc' = [cj_pc EXCEPT ![j] = "lights"]
    /\ UNCHANGED <<cj_shared, cj_kp, cj_script, cj_sess, cj_step, cj_scratch>>
    /\ CjOnly

\* "turn out the lights": shutil.rmtree(<afni_dir>/<subj>).
CjLights(j) ==
    /\ cj_pc[j] = "lights"
    /\ cj_scratch' = [s \in CjJobs |-> {}]
    /\ cj_pc' = [cj_pc EXCEPT ![j] = "done"]
    /\ UNCHANGED <<cj_shared, cj_kp, cj_script, cj_sess, cj_step, cj_final>>
    /\ CjOnly

NextCj ==
    \E j \in CjJobs :
        \/ CjWrite(j)
        \/ CjSbatch(j)
        \/ CjWork(j)
        \/ CjWorkDone(j)
        \/ CjCleanup(j)
        \/ CjCopy(j)
        \/ CjLights(j)

(***************************************************************************)
(* Specifications                                                          *)
(***************************************************************************)
NextSubmit ==
    \/ SbatchSubmit
    \/ PollFound
    \/ PollSleep
    \/ PollGone
    \/ WaitReturn
    \/ JobEnds
    \/ OtherJob

InitSubmit == IdleSubmit /\ IdleCli /\ IdlePreproc /\ IdleCheck /\ IdleFmriprep /\ IdleAshs
    /\ IdleCtl /\ IdleMot /\ IdleCj

SpecSubmit == InitSubmit /\ [][NextSubmit]_vars

\* The process that called submit_hpc_sbatch keeps running; the jobs of the
\* queue need not ever end.
SubmitFairness ==
    /\ WF_vars(PollFound) /\ WF_vars(PollSleep) /\ WF_vars(PollGone)
    /\ WF_vars(WaitReturn)

SpecSubmitFair == SpecSubmit /\ SubmitFairness

InitCliSpec == InitCli /\ IdleSubmit /\ IdlePreproc /\ IdleCheck /\ IdleFmriprep /\ IdleAshs
    /\ IdleCtl /\ IdleMot /\ IdleCj

SpecCli == InitCliSpec /\ [][NextCli]_vars

InitPreprocSpec == InitPreproc /\ IdleSubmit /\ IdleCli /\ IdleCheck /\ IdleFmriprep /\ IdleAshs
    /\ IdleCtl /\ IdleMot /\ IdleCj

SpecPreproc == InitPreprocSpec /\ [][NextPreproc]_vars

InitCheckSpec == InitCheck /\ IdleSubmit /\ IdleCli /\ IdlePreproc /\ IdleFmriprep /\ IdleAshs
    /\ IdleCtl /\ IdleMot /\ IdleCj

SpecCheck == InitCheckSpec /\ [][NextCheck]_vars

InitFmriprepSpec ==
    InitFmriprep /\ IdleSubmit /\ IdleCli /\ IdlePreproc /\ IdleCheck /\ IdleAshs
    /\ IdleCtl /\ IdleMot /\ IdleCj

SpecFmriprep == InitFmriprepSpec /\ [][NextFmriprep]_vars

InitAshsSpec ==
    InitAshs /\ IdleSubmit /\ IdleCli /\ IdlePreproc /\ IdleCheck /\ IdleFmriprep
    /\ IdleCtl /\ IdleMot /\ IdleCj

SpecAshs == InitAshsSpec /\ [][NextAshs]_vars

InitCtlSpec ==
    InitCtl /\ IdleSubmit /\ IdleCli /\ IdlePreproc /\ IdleCheck /\ IdleFmriprep
    /\ IdleAshs /\ IdleMot /\ IdleCj

SpecCtl == InitCtlSpec /\ [][NextCtl]_vars

\* The controller's own steps are taken as long as they are possible; the
\* jobs of the queue need not ever end.
CtlFairness ==
    /\ WF_vars(CtlCheck) /\ WF_vars(CtlWait) /\ WF_vars(CtlSubmit)
    /\ WF_vars(CtlEndBatch) /\ WF_vars(CtlWake)

SpecCtlFair == SpecCtl /\ CtlFairness

InitMotSpec ==
    InitMot /\ IdleSubmit /\ IdleCli /\ IdlePreproc /\ IdleCheck /\ IdleFmriprep
    /\ IdleAshs /\ IdleCtl /\ IdleCj

SpecMot == InitMotSpec /\ [][NextMot]_vars

InitCjSpec ==
    InitCj /\ IdleSubmit /\ IdleCli /\ IdlePreproc /\ IdleCheck /\ IdleFmriprep
    /\ IdleAshs /\ IdleCtl /\ IdleMot

SpecCj == InitCjSpec /\ [][NextCj]_vars

(***************************************************************************)
(* Claims                                                                  *)
(***************************************************************************)

\* C1: submit_hpc_sbatch has returned only if the job it submitted is no
\* longer queued or running (polling version and sbatch --wait version).
C1_ReturnsAfterJobLeft == sb_pc = "returned" => ~InQueue(job_id)

\* A call of the polling version that waited at least one round and returned.
C1_Witness == sb_pc = "returned" /\ while_count > 0 /\ job_id # 0

InDict(subj) == \E k \in 1..Len(subj_dict) : subj_dict[k].subj = subj

\* The subject the last iteration took has the fMRIprep output the task needs
\* (and a JSON plan, when --json-dir is given).
C2_HasInput == obs.anat /\ obs.func /\ (json_dir => obs.json)

\* One of the four required outputs of that subject is missing, where the
\* tool looks for it: under --out-dir when given, else in the log; the
\* deconvolution under the final directory when --json-dir is given.
C2_SomeMissing ==
    \/ ~(IF out_dir THEN obs.wme_found ELSE obs.log_wme)
    \/ ~(IF out_dir THEN obs.intx_found ELSE obs.log_intersect)
    \/ ~(IF out_dir THEN obs.scaled_found ELSE obs.log_scaled)
    \/ ~(IF json_dir THEN obs.decon_exists ELSE obs.log_decon)

\* C2: in afni_task_subj.main a subject of the log is in the work queue if
\* and only if it has the fMRIprep input (and JSON plan) and at least one of
\* its four required outputs is missing.
C2_QueuedIffMissing ==
    (cli = "afni" /\ idx > 0) =>
        (InDict(subj_list_all[idx]) <=> (C2_HasInput /\ C2_SomeMissing))

\* The same, for the option combinations that reach line 445.
C2_QueuedIffMissingNoCrash ==
    (cli = "afni" /\ idx > 0 /\ (out_dir => json_dir)) =>
        (InDict(subj_list_all[idx]) <=> (C2_HasInput /\ C2_SomeMissing))

\* C3: one invocation submits at most batch_num jobs, for the first
\* batch_num subjects of the work queue in queue order, and none when the
\* queue is empty.
C3_FirstBatchOnly ==
    /\ Len(submitted) <= batch_num
    /\ Len(submitted) <= Len(subj_dict)
    /\ \A k \in 1..Len(submitted) : submitted[k] = subj_dict[k]
    /\ (cli_pc = "done" => Len(submitted) = Min(batch_num, Len(subj_dict)))

\* A finished invocation whose queue was longer than the batch.
C3_Witness ==
    /\ cli_pc = "done"
    /\ batch_num > 0
    /\ Len(subj_dict) > batch_num
    /\ Len(submitted) = batch_num

\* C4: once a control_preproc call has returned on a work_dir, a further call
\* on it submits no cluster job and returns the same afni_data mapping.
C4_SecondRunIdle ==
    completed => (jobs = 0 /\ (pp_pc = "returned" => afni_data = prev_data))

\* A second call that went through blur_epi and returned.
C4_Witness ==
    pp_pc = "returned" /\ completed /\ run_no = 2 /\ do_blur /\ num_runs > 1

\* C5: when a step's job has returned and the step's output file is still
\* absent, the step has raised: it is the last step started, the job has
\* copied nothing to the final directory and has not removed scratch.
C5_LostOutputEndsJob ==
    job_lost # "" =>
        /\ pp_pc = "failed"
        /\ steps # <<>> /\ steps[Len(steps)] = job_lost
        /\ final = {}
        /\ ~scratch_gone

\* The job of scale_epi returned without the scaled file, after the earlier
\* steps had written theirs.
C5_Witness ==
    job_lost = "scale_epi" /\ pp_pc = "failed" /\ <<"desc-minval_mask", 0>> \in files

\* The order of the steps of control_preproc.
C6_Order ==
    <<"copy_data">> \o (IF do_blur THEN <<"blur_epi">> ELSE <<>>)
    \o <<"make_intersect_mask", "make_tissue_masks", "make_minimum_masks",
         "scale_epi", "mot_files">>

\* The afni_data keys each step reads.
C6_Reads(step) ==
    LET epi(kind) == {<<kind, r>> : r \in 1..num_runs}
    IN  CASE step = "copy_data" -> {}
          [] step = "blur_epi" -> epi("epi-preproc")
          [] step = "make_intersect_mask" ->
                {<<"mask-brain", 0>>} \cup epi(IF do_blur THEN "epi-blur" ELSE "epi-preproc")
          [] step = "make_tissue_masks" ->
                {<<"mask-brain", 0>>, <<"mask-probGM", 0>>, <<"mask-probWM", 0>>,
                 <<"mask-probCSF", 0>>}
          [] step = "make_minimum_masks" -> {<<"mask-brain", 0>>} \cup epi("epi-preproc")
          [] step = "scale_epi" ->
                {<<"mask-min", 0>>} \cup epi(IF do_blur THEN "epi-blur" ELSE "epi-preproc")
          [] step = "mot_files" -> epi("mot-confound")

C6_IsPrefix == Len(steps) <= Len(C6_Order) /\ steps = SubSeq(C6_Order, 1, Len(steps))

C6_KeysSetAtStart ==
    (steps' # steps /\ steps' # <<>>) =>
        C6_Reads(steps'[Len(steps')]) \subseteq DOMAIN afni_data

\* C6: control_preproc starts its steps in the fixed order copy_data,
\* blur_epi (only when do_blur), make_intersect_mask, make_tissue_masks,
\* make_minimum_masks, scale_epi, mot_files, and a step starts only when
\* every afni_data key it reads is already set.
C6_OrderAndKeys == [](C6_IsPrefix) /\ [][C6_KeysSetAtStart]_vars

\* A call with do_blur that went through all seven steps.
C6_Witness == pp_pc = "returned" /\ do_blur /\ Len(steps) = 7

\* C7: every row of the log is of a subject that is in the pseudo-GUID list
\* and is not marked excluded there.
C7_OnlyConsentedRows ==
    \A k \in 1..Len(log) : log[k].subjID \in guid \ excluded

\* What a call with new_df leaves in the log.
C8_Regenerated ==
    LET subj_list == SubjList(one_subj', guid', excluded')
    IN  /\ Len(log') = Len(subj_list)
        /\ \A k \in 1..Len(subj_list) : \E j \in 1..Len(log') : log'[j].subjID = subj_list[k]
        /\ \A j \in 1..Len(log') : \A c \in Cols :
              /\ log'[j].cells[c] # 0 <=> deriv[log'[j].subjID][c] # 0
              /\ log'[j].cells[c] = deriv[log'[j].subjID][c]

\* C8: a call of check_preproc with new_df leaves a log that has exactly one
\* row per subject of the call's subject list, in which a cell is filled if
\* and only if the derivative file exists at the call, with that file's
\* time; nothing of the log before the call is kept.
C8_NewDfRegenerates == [][(ck_calls' # ck_calls /\ new_df') => C8_Regenerated]_vars

\* A new_df call replaced a stale time of the log before it, and dropped a row.
C8_Witness ==
    /\ new_df /\ ~ck_crashed /\ ck_calls = 2
    /\ \E k \in 1..Len(prev_log) : \E j \in 1..Len(log) : \E c \in Cols :
          /\ prev_log[k].subjID = log[j].subjID
          /\ prev_log[k].cells[c] # 0
          /\ prev_log[k].cells[c] # log[j].cells[c]

C9_WitnessSkip ==
    fp_started /\ ~fs_ran /\ fs_found = "yes"

\* C10: whenever run_ashs has removed work_dir, every file that was in
\* work_dir/final at that moment was in deriv_dir.
C10_NothingLostAtRemoval == ashs_lost = {}

\* C11: whenever the subject job removes the subject's scratch directory,
\* every file that was in it is under the final directory.
C11_CopiedBeforeRemoval ==
    [][(scratch_gone' /\ ~scratch_gone) => files \subseteq final]_vars

\* C12: the controller is at its submission loop only in an iteration whose
\* squeue output had fewer than 3 newlines, and that listing showed no job
\* but the controller's own.
C12_SubmitsOnQuietQueue ==
    ctl_pc = "submit" =>
        /\ CountNewlines(out_lines) < 3
        /\ \A k \in 1..Len(ctl_seen) : ctl_seen[k] = CtlJob

\* A job was submitted in an iteration that came after a wait on a busy queue.
C12_Witness ==
    ctl_pc = "submit" /\ ctl_i > 0 /\ ctl_while_count > 0 /\ Len(ctl_queue) > 1

\* C13: the controller loop ends.
C13_Terminates == <>(ctl_pc \in {"done", "crashed"})

\* C14: every job is submitted with the plan of its own subject's JSON file.
C14_OwnPlan ==
    ctl_json_dir => \A j \in ctl_submitted : j.plan = j.subj

\* Rows of df_censor_cat that come before those of run r.
RECURSIVE RowsBefore(_)
RowsBefore(r) == IF r = 1 THEN 0 ELSE RowsBefore(r - 1) + mot_conf[r - 1].n

\* C15: the censor vector written by mot_files holds the runs' vectors in
\* run order, and a run's vector is 0 at every flagged volume and at the
\* volume before a flagged volume of the same run, 1 elsewhere.
C15_CensorVector ==
    mot_pc = "done" =>
        /\ Len(df_censor_cat) = RowsBefore(Len(mot_conf) + 1)
        /\ \A r \in 1..Len(mot_conf) : \A v \in 0..(mot_conf[r].n - 1) :
              df_censor_cat[RowsBefore(r) + v + 1] =
                  IF v \in mot_conf[r].out \/ (v + 1) \in mot_conf[r].out
                  THEN 0 ELSE 1

\* Two runs: the first has its middle volume flagged, the second its first
\* volume; the last volume of the first run is kept.
C15_Witness ==
    /\ mot_pc = "done" /\ Len(mot_conf) = 2
    /\ mot_conf[1] = [n |-> 3, out |-> {1}]
    /\ 0 \in mot_conf[2].out
    /\ df_censor_cat[1] = 0 /\ df_censor_cat[2] = 0 /\ df_censor_cat[3] = 1
    /\ df_censor_cat[4] = 0

\* C16: once the job that submit_hpc_sbatch submitted has left the queue,
\* the polling loop ends and the function returns.
C16_PollingEnds ==
    (sb_pc \in {"poll", "sleep"} /\ ~InQueue(job_id)) ~> (sb_pc = "returned")

\* Call j takes no step in this transition.
CjStill(j) == cj_pc'[j] = cj_pc[j] /\ cj_step'[j] = cj_step[j]

\* C17: a step of one job removes no scratch file of the session another
\* running job works in, and replaces no driver script that another call has
\* written and not yet handed to sbatch.
C17_NoInterference ==
    [][\A j \in CjJobs : CjStill(j) =>
          /\ (CjRunning(j) /\ cj_pc[j] # "lights") =>
                cj_scratch[cj_sess[j]] \subseteq cj_scratch'[cj_sess[j]]
          /\ cj_pc[j] = "written" =>
                cj_script'[ScriptOf(j)] = cj_script[ScriptOf(j)]]_vars

====
